---- MODULE Spec2Model ----
(***************************************************************************)
(* bpm: the incremental asset pipeline.  One frame of the host scheduler   *)
(* (app.update) runs the three Update systems check_for_stale_files,       *)
(* ProcessingRaw::system and ProcessingMesh::system in an unspecified      *)
(* order; their Commands (spawn / despawn) are deferred and applied when   *)
(* the schedule ends.  The file system is shared state that the systems    *)
(* read and write directly.                                                *)
(***************************************************************************)
EXTENDS Integers, Sequences, FiniteSets, Bags, TLC

(***************************************************************************)
(* Bounds of the model.                                                    *)
(***************************************************************************)
\* the file-system clock runs 0..MaxClock
MaxClock == 1
\* the time delta of a frame after the first, in timer units, is 1..MaxDelta
MaxDelta == 2
\* the environment modifies a source file or deletes the destination files
\* at most MaxTouches times
MaxTouches == 1
\* time stamps drawn for the staleness oracle's inputs are 0..MaxStamp
MaxStamp == 2
\* at most MaxWalkErrors entries of the source tree cannot be stat'ed
MaxWalkErrors == 1

(***************************************************************************)
(* Strings that the code takes apart are sequences of characters.          *)
(***************************************************************************)
AsciiUpper ==
    << "A", "B", "C", "D", "E", "F", "G", "H", "I", "J", "K", "L", "M",
       "N", "O", "P", "Q", "R", "S", "T", "U", "V", "W", "X", "Y", "Z" >>

AsciiLower ==
    << "a", "b", "c", "d", "e", "f", "g", "h", "i", "j", "k", "l", "m",
       "n", "o", "p", "q", "r", "s", "t", "u", "v", "w", "x", "y", "z" >>

\* u8::to_ascii_lowercase on one character
to_ascii_lowercase_char(c) ==
    IF \E i \in 1..Len(AsciiUpper) : AsciiUpper[i] = c
    THEN AsciiLower[CHOOSE i \in 1..Len(AsciiUpper) : AsciiUpper[i] = c]
    ELSE c

\* OsStr::to_ascii_lowercase / str::to_ascii_lowercase
to_ascii_lowercase(s) ==
    [i \in 1..Len(s) |-> to_ascii_lowercase_char(s[i])]

\* Vec<String>::contains
Contains(list, x) ==
    \E i \in 1..Len(list) : list[i] = x

ExtPng == << "p", "n", "g" >>

ExtPNG == << "P", "N", "G" >>

ExtGlb == << "g", "l", "b" >>

ExtGltf == << "g", "l", "t", "f" >>

ExtGlxf == << "g", "l", "x", "f" >>

ExtFbx == << "f", "b", "x" >>

ExtToml == << "t", "o", "m", "l" >>

\* a file name without a dot has no extension
NoExt == << >>

\* the empty string as a configured extension
ExtEmpty == << >>

(***************************************************************************)
(* Paths are sequences of components; a component is a stem and an         *)
(* extension (the part after the last dot).                                *)
(***************************************************************************)
Comp(stem, ext) ==
    [stem |-> stem, ext |-> ext]

\* Option::None of an Option<PathBuf>
None == << >>

\* Path::new("assets-dev")
AssetsDev == << Comp("assets-dev", NoExt) >>

\* Path::new("assets")
Assets == << Comp("assets", NoExt) >>

\* Path::join
Join(base, rel) ==
    base \o rel

\* Path::strip_prefix: the rest of the path, or an error
strip_prefix(path, base) ==
    IF Len(path) >= Len(base) /\ SubSeq(path, 1, Len(base)) = base
    THEN [ok |-> TRUE, rel |-> SubSeq(path, Len(base) + 1, Len(path))]
    ELSE [ok |-> FALSE, rel |-> << >>]

\* Path::extension: NoExt stands for Option::None
extension(path) ==
    IF Len(path) = 0 THEN NoExt ELSE path[Len(path)].ext

\* PathBuf::set_extension
set_extension(path, ext) ==
    IF Len(path) = 0
    THEN path
    ELSE [path EXCEPT ![Len(path)] = Comp(path[Len(path)].stem, ext)]

\* a faulty mapping: the first component is replaced whatever it is
get_destination_unchecked(source) ==
    Join(Assets, SubSeq(source, 2, Len(source)))

\* ProcessingRaw::get_destination
ProcessingRaw_get_destination(source) ==
    LET base == strip_prefix(source, AssetsDev)
    IN  IF base.ok THEN Join(Assets, base.rel) ELSE None

\* ProcessingMesh::get_destination
ProcessingMesh_get_destination(source) ==
    LET base == strip_prefix(source, AssetsDev)
    IN  IF base.ok THEN set_extension(Join(Assets, base.rel), ExtGlb) ELSE None

\* AssetProcessing::get_destination: only the raw rule is consulted
AssetProcessing_get_destination(source) ==
    LET path == ProcessingRaw_get_destination(source)
    IN  IF path # None THEN path ELSE None

(***************************************************************************)
(* The source tree, in the order WalkDir yields it (depth first, entries   *)
(* sorted by file name, a directory before its contents).                  *)
(***************************************************************************)
Src(rel) ==
    Join(AssetsDev, rel)

Entry(path, is_dir) ==
    [path |-> path, is_dir |-> is_dir]

WalkDir ==
    << Entry(AssetsDev, TRUE),
       Entry(Src(<< Comp("README", NoExt) >>), FALSE),
       Entry(Src(<< Comp("a", ExtPng) >>), FALSE),
       Entry(Src(<< Comp("config", ExtToml) >>), FALSE),
       Entry(Src(<< Comp("empty", NoExt) >>), TRUE),
       Entry(Src(<< Comp("model", ExtFbx) >>), FALSE),
       Entry(Src(<< Comp("model", ExtGlb) >>), FALSE),
       Entry(Src(<< Comp("scene", ExtGltf) >>), FALSE),
       Entry(Src(<< Comp("sub", NoExt) >>), TRUE),
       Entry(Src(<< Comp("sub", NoExt), Comp("b", ExtPNG) >>), FALSE) >>

SourceFiles ==
    {WalkDir[i].path : i \in {j \in 1..Len(WalkDir) : ~WalkDir[j].is_dir}}

SourceDirs ==
    {WalkDir[i].path : i \in {j \in 1..Len(WalkDir) : WalkDir[j].is_dir}}

\* every path a file of the destination tree can have
DestFiles ==
    {ProcessingRaw_get_destination(f) : f \in SourceFiles}

\* a time stamp the platform cannot supply (Err of modified() / accessed()),
\* and the time of a file that does not exist
NoTime == -1

\* the destination tree the program finds when it starts: nothing, or the
\* mirror of every source file and directory that an earlier run (possibly
\* under another configuration) left behind
DestTrees ==
    { [files |-> [d \in DestFiles |-> NoTime], dirs |-> {}],
      [files |-> [d \in DestFiles |-> 0],
       dirs |-> {ProcessingRaw_get_destination(d) : d \in SourceDirs}] }

(***************************************************************************)
(* Configuration snapshots (Config): the poll interval in timer units and  *)
(* the extension lists of the two registered kinds.                        *)
(***************************************************************************)
Configs ==
    { [file_watching_rate_seconds |-> 1,
       raw |-> << ExtPng >>,
       mesh |-> << ExtGlb >>],
      [file_watching_rate_seconds |-> 2,
       raw |-> << ExtPng, ExtGlb, ExtToml, ExtEmpty >>,
       mesh |-> << ExtGlb, ExtGltf, ExtFbx >>],
      [file_watching_rate_seconds |-> 1,
       raw |-> << >>,
       mesh |-> << ExtGlb, ExtGltf >>] }

\* the kind tags FileRaw and FileMesh
FileRaw == "FileRaw"

FileMesh == "FileMesh"

VARIABLES
    config,        \* Res<Config>
    now,           \* the file-system clock
    srcTime,       \* modification time of every source file
    destTime,      \* modification time of every destination file, NoTime if missing
    destDirs,      \* directories of the destination tree
    timer,         \* RefreshTimer: elapsed time of the repeating timer
    time_delta,    \* Time::delta of the frame as the scan read it, 0 before
    entities,      \* bag of FileQueuedForProcessing entities in the world
    spawnCmds,     \* deferred spawn commands of this frame
    despawnCmds,   \* deferred despawn commands of this frame
    unprocessed,   \* UnprocessedFiles
    touches,       \* number of source modifications and deletions so far
    erred,         \* positions in the walk of the entries whose stat fails
    started,       \* the first frame is over
    ran,           \* the systems that have run in this frame
    fired,         \* the scan fired in this frame
    everFired,     \* some scan has fired
    quiet,         \* a scan has looked at every file and no source changed since
    unhandled,     \* unhandled_files of the last fired scan
    failed,        \* sources whose mesh transform failed
    crashed,       \* a system panicked: the process is gone
    oneshot,       \* cli.oneshot: the driver is the run-once loop
    returned,      \* the run-once loop has ended
    smeta,         \* staleness oracle: metadata of the source
    dmeta,         \* staleness oracle: metadata of the destination
    stale,         \* staleness oracle: the answer, "none" before the call
    rfile,         \* routing oracle: the source path handed to queue_file
    routed         \* routing oracle: what queue_file did, empty before the call

vars ==
    << config, now, srcTime, destTime, destDirs, timer, time_delta, entities,
       spawnCmds, despawnCmds, unprocessed, touches, erred, started, ran, fired,
       everFired, quiet, unhandled,
       failed, crashed, oneshot, returned, smeta, dmeta, stale, rfile,
       routed >>

driverVars ==
    << oneshot, returned >>

oracleVars ==
    << smeta, dmeta, stale, rfile, routed >>

pipelineVars ==
    << config, now, srcTime, destTime, destDirs, timer, time_delta, entities,
       spawnCmds, despawnCmds, unprocessed, touches, erred, started, ran, fired,
       everFired, quiet, unhandled,
       failed, crashed, oneshot, returned >>

(***************************************************************************)
(* Staleness oracle.                                                       *)
(***************************************************************************)
\* Err of fs::metadata
NoMeta ==
    [exists |-> FALSE, modified |-> NoTime, accessed |-> NoTime]

Meta(m, a) ==
    [exists |-> TRUE, modified |-> m, accessed |-> a]

\* modified(), falling back to accessed(), or NoTime
comparison_time(meta) ==
    IF meta.modified # NoTime
    THEN meta.modified
    ELSE IF meta.accessed # NoTime THEN meta.accessed ELSE NoTime

\* a faulty comparison: "not Ordering::Less" in place of Ordering::Greater
GreaterOrEqual(a, b) ==
    a >= b

\* time_source.cmp(&time_dest) == Ordering::Greater
Greater(a, b) ==
    a > b

\* is_stale, on the results of fs::metadata(source) and fs::metadata(dest)
is_stale(meta_source, meta_dest) ==
    IF ~meta_source.exists
    THEN TRUE
    ELSE IF ~meta_dest.exists
    THEN TRUE
    ELSE LET time_source == comparison_time(meta_source)
             time_dest == comparison_time(meta_dest)
         IN  IF time_source = NoTime \/ time_dest = NoTime
             THEN FALSE
             ELSE Greater(time_source, time_dest)

\* fs::metadata on the modelled file system
Metadata(path) ==
    IF path \in SourceFiles
    THEN Meta(srcTime[path], srcTime[path])
    ELSE IF path \in DestFiles /\ destTime[path] # NoTime
    THEN Meta(destTime[path], destTime[path])
    ELSE NoMeta

(***************************************************************************)
(* Processor registry and routing.                                         *)
(* A FileQueuedForProcessing entity is its source, its destination and the *)
(* kind tag spawned with it; queue_time is only ever logged.               *)
(***************************************************************************)
WorkItem(source, dest, kind) ==
    [source |-> source, dest |-> dest, kind |-> kind]

\* ProcessingRaw::matches
ProcessingRaw_matches(ext, cfg) ==
    Contains(cfg.raw, ext)

\* ProcessingMesh::matches
ProcessingMesh_matches(ext, cfg) ==
    Contains(cfg.mesh, ext)

\* a faulty routing: the mesh kind is asked before the raw kind
queue_file_mesh_first(source, dest, cfg) ==
    LET file_ext == to_ascii_lowercase(extension(source))
    IN  IF extension(source) = NoExt
        THEN [ok |-> FALSE, spawn |-> EmptyBag]
        ELSE IF ProcessingMesh_matches(file_ext, cfg)
        THEN [ok |-> TRUE, spawn |-> SetToBag({WorkItem(source, dest, FileMesh)})]
        ELSE IF ProcessingRaw_matches(file_ext, cfg)
        THEN [ok |-> TRUE, spawn |-> SetToBag({WorkItem(source, dest, FileRaw)})]
        ELSE [ok |-> FALSE, spawn |-> EmptyBag]

\* a faulty routing: a file without an extension is matched like any other
queue_file_any_name(source, dest, cfg) ==
    LET file_ext == to_ascii_lowercase(extension(source))
    IN  IF ProcessingRaw_matches(file_ext, cfg)
        THEN [ok |-> TRUE, spawn |-> SetToBag({WorkItem(source, dest, FileRaw)})]
        ELSE IF ProcessingMesh_matches(file_ext, cfg)
        THEN [ok |-> TRUE, spawn |-> SetToBag({WorkItem(source, dest, FileMesh)})]
        ELSE [ok |-> FALSE, spawn |-> EmptyBag]

\* queue_file: the entities it spawns and the boolean it returns
queue_file(source, dest, cfg) ==
    LET file_ext_os == extension(source)
        file_ext == to_ascii_lowercase(file_ext_os)
    IN  IF file_ext_os = NoExt
        THEN [ok |-> FALSE, spawn |-> EmptyBag]
        ELSE IF ProcessingRaw_matches(file_ext, cfg)
        THEN [ok |-> TRUE, spawn |-> SetToBag({WorkItem(source, dest, FileRaw)})]
        ELSE IF ProcessingMesh_matches(file_ext, cfg)
        THEN [ok |-> TRUE, spawn |-> SetToBag({WorkItem(source, dest, FileMesh)})]
        ELSE [ok |-> FALSE, spawn |-> EmptyBag]

(***************************************************************************)
(* Scan-and-queue engine: check_for_stale_files.                           *)
(***************************************************************************)
\* the sources of the entities of a bag
Sources(bag) ==
    {e.source : e \in BagToSet(bag)}

\* a faulty guard: the in-flight snapshot is never consulted
contains_never(currently_queued_paths, source_path) ==
    FALSE

\* currently_queued_paths.contains(&source_path)
currently_queued_contains(currently_queued_paths, source_path) ==
    source_path \in currently_queued_paths

\* the directory and all its ancestors
Ancestors(path) ==
    {SubSeq(path, 1, n) : n \in 1..Len(path)}

\* the directory that holds a path
Parent(path) ==
    SubSeq(path, 1, Len(path) - 1)

\* a faulty mirroring: a directory is created only when it holds an entry
create_dir_all_nonempty(dest_path) ==
    IF \E f \in DestFiles : Len(f) > Len(dest_path)
                            /\ SubSeq(f, 1, Len(dest_path)) = dest_path
    THEN Ancestors(dest_path)
    ELSE {}

\* fs::create_dir_all: the directories that exist afterwards
create_dir_all(dest_path) ==
    Ancestors(dest_path)

\* what one iteration of the walk does
NoEffect ==
    [dirs |-> {}, spawn |-> EmptyBag, count |-> 0, unhandled |-> << >>]

\* a faulty exclusion: no entry is taken for the configuration file
is_config_file_never(path) ==
    FALSE

\* entry.path() == Path::new("assets-dev").join("config.toml")
is_config_file(path) ==
    path = Join(AssetsDev, << Comp("config", ExtToml) >>)

walk_entry(entry, currently_queued_paths) ==
    IF is_config_file(entry.path)
    THEN NoEffect
    ELSE LET entry_path == strip_prefix(entry.path, AssetsDev)
             source_path == Join(AssetsDev, entry_path.rel)
             dest_path == AssetProcessing_get_destination(source_path)
         IN  IF ~entry_path.ok
             THEN NoEffect
             ELSE IF dest_path = None
             THEN NoEffect
             ELSE IF currently_queued_contains(currently_queued_paths, source_path)
             THEN NoEffect
             ELSE IF entry.is_dir
             THEN [NoEffect EXCEPT !.dirs = create_dir_all(dest_path)]
             ELSE IF is_stale(Metadata(source_path), Metadata(dest_path))
             THEN LET q == queue_file(source_path, dest_path, config)
                  IN  IF q.ok
                      THEN [NoEffect EXCEPT !.spawn = q.spawn, !.count = 1]
                      ELSE [NoEffect EXCEPT !.unhandled = << source_path >>]
             ELSE NoEffect

\* what the iterator yields at position i when stat'ing the entries of
\* `errs` fails: Ok, Err, or nothing for an entry below a directory that
\* could not be entered
entry_result(i, errs) ==
    IF i \in errs
    THEN "err"
    ELSE IF \E j \in errs : /\ WalkDir[j].is_dir
                            /\ strip_prefix(WalkDir[i].path, WalkDir[j].path).ok
    THEN "absent"
    ELSE "ok"

\* a faulty loop: the first Err item ends the walk
reached_until_error(i, errs) ==
    \A j \in errs : j > i

\* an Err item is logged and the loop continues: every item is reached
reached(i, errs) ==
    TRUE

\* one item of the iterator
walk_item(i, currently_queued_paths, errs) ==
    IF reached(i, errs) /\ entry_result(i, errs) = "ok"
    THEN walk_entry(WalkDir[i], currently_queued_paths)
    ELSE NoEffect

\* the loop over the entries i..Len(WalkDir): the directories it creates
RECURSIVE walk_dirs(_, _, _)
walk_dirs(i, currently_queued_paths, errs) ==
    IF i > Len(WalkDir)
    THEN {}
    ELSE walk_item(i, currently_queued_paths, errs).dirs
            \cup walk_dirs(i + 1, currently_queued_paths, errs)

\* the loop over the entries i..Len(WalkDir): the entities it spawns
RECURSIVE walk_spawn(_, _, _)
walk_spawn(i, currently_queued_paths, errs) ==
    IF i > Len(WalkDir)
    THEN EmptyBag
    ELSE walk_item(i, currently_queued_paths, errs).spawn
            (+) walk_spawn(i + 1, currently_queued_paths, errs)

\* the loop over the entries i..Len(WalkDir): the value of count
RECURSIVE walk_count(_, _, _)
walk_count(i, currently_queued_paths, errs) ==
    IF i > Len(WalkDir)
    THEN 0
    ELSE walk_item(i, currently_queued_paths, errs).count
            + walk_count(i + 1, currently_queued_paths, errs)

\* the loop over the entries i..Len(WalkDir): the value of unhandled_files
RECURSIVE walk_unhandled(_, _, _)
walk_unhandled(i, currently_queued_paths, errs) ==
    IF i > Len(WalkDir)
    THEN << >>
    ELSE walk_item(i, currently_queued_paths, errs).unhandled
            \o walk_unhandled(i + 1, currently_queued_paths, errs)


\* Timer::tick of a repeating timer: the new elapsed time
timer_tick(elapsed, delta, duration) ==
    (elapsed + delta) % duration

\* a faulty gate: the timer counts as finished on every call
timer_always_finished(elapsed, delta, duration) ==
    TRUE

\* Timer::finished after the tick
timer_finished(elapsed, delta, duration) ==
    elapsed + delta >= duration

\* check_for_stale_files in a frame whose time.delta() is `delta`
scan(delta) ==
    /\ ~crashed
    /\ ~returned
    /\ "scan" \notin ran
    /\  /\ time_delta' = delta
        /\ timer' = timer_tick(timer, delta, config.file_watching_rate_seconds)
        /\ IF ~timer_finished(timer, delta, config.file_watching_rate_seconds)
           THEN UNCHANGED << destDirs, spawnCmds, unprocessed, fired,
                             everFired, quiet, unhandled, failed >>
           ELSE LET currently_queued_paths == Sources(entities)
                    errs == erred
                IN  /\ destDirs' = destDirs
                            \cup walk_dirs(1, currently_queued_paths, errs)
                    /\ spawnCmds' = spawnCmds
                            (+) walk_spawn(1, currently_queued_paths, errs)
                    /\ unprocessed' = walk_count(1, currently_queued_paths, errs)
                    /\ unhandled' = walk_unhandled(1, currently_queued_paths, errs)
                    /\ failed' = failed
                            \ Sources(walk_spawn(1, currently_queued_paths, errs))
                    /\ fired' = TRUE
                    /\ everFired' = TRUE
                    /\ quiet' = ((currently_queued_paths = {} /\ errs = {}) \/ quiet)
    /\ ran' = ran \cup {"scan"}
    /\ UNCHANGED << config, now, srcTime, destTime, entities, despawnCmds,
                    touches, erred, started, crashed >>
    /\ UNCHANGED driverVars
    /\ UNCHANGED oracleVars

\* Time::delta is zero in the first frame and positive in every later one
Deltas ==
    IF started THEN 1..MaxDelta ELSE {0}

check_for_stale_files ==
    \E delta \in Deltas : scan(delta)

(***************************************************************************)
(* Processor execution units.                                              *)
(***************************************************************************)
\* the entities a system's query With<Comp> yields
Query(kind) ==
    {e \in BagToSet(entities) : e.kind = kind}

\* the sub-bag of the world holding the entities of a set
BagOf(items) ==
    [e \in items |-> CopiesIn(e, entities)]

\* a file can be created only in a directory that exists
Writable(dest) ==
    Parent(dest) \in destDirs

\* the destination tree after the files of a set of entities are written
Written(items) ==
    [d \in DestFiles |->
        IF \E e \in items : e.dest = d THEN now ELSE destTime[d]]

\* ProcessingRaw::system.  fs::copy fails on the entities of `errs`; the
\* loop panics at the first of them, after copying the entities of `done`.
ProcessingRaw_system ==
    /\ ~crashed
    /\ ~returned
    /\ "raw" \notin ran
    /\ \E errs \in SUBSET Query(FileRaw) :
        /\ \A e \in Query(FileRaw) : ~Writable(e.dest) => e \in errs
        /\ IF errs = {}
           THEN /\ destTime' = Written(Query(FileRaw))
                /\ despawnCmds' = despawnCmds (+) BagOf(Query(FileRaw))
                /\ crashed' = FALSE
           ELSE \E done \in SUBSET (Query(FileRaw) \ errs) :
                /\ destTime' = Written(done)
                /\ despawnCmds' = despawnCmds (+) BagOf(done)
                /\ crashed' = TRUE
    /\ ran' = ran \cup {"raw"}
    /\ UNCHANGED << config, now, srcTime, destDirs, timer, entities,
                    spawnCmds, unprocessed, touches, started, fired, everFired, quiet,
                    unhandled, failed >>
    /\ UNCHANGED << time_delta, erred >>
    /\ UNCHANGED driverVars
    /\ UNCHANGED oracleVars

\* enum SceneExt
SceneExt == {"Glb", "Gltf", "Glxf"}

\* what the transcode capability and the file system answer for one entity
Outcomes == {"ok", "import_err", "export_err", "write_err"}

\* process_gltf_format: todo!() panics, otherwise the value returned and
\* whether dest_file was written
process_gltf_format(format, outcome) ==
    IF format # "Glb"
    THEN [panic |-> TRUE, processed |-> FALSE, written |-> FALSE]
    ELSE IF outcome = "import_err"
    THEN [panic |-> FALSE, processed |-> FALSE, written |-> FALSE]
    ELSE [panic |-> FALSE, processed |-> TRUE, written |-> outcome = "ok"]

\* one iteration of the loop of ProcessingMesh::system
mesh_entry(entry, outcome) ==
    LET os_ext == extension(entry.source)
        ext == to_ascii_lowercase(os_ext)
        r == IF ext = ExtGlb THEN process_gltf_format("Glb", outcome)
             ELSE IF ext = ExtGltf THEN process_gltf_format("Gltf", outcome)
             ELSE IF ext = ExtGlxf THEN process_gltf_format("Glxf", outcome)
             ELSE [panic |-> FALSE, processed |-> FALSE, written |-> FALSE]
    IN  IF os_ext = NoExt
        THEN [panic |-> FALSE, despawn |-> FALSE, written |-> FALSE]
        ELSE [panic |-> r.panic \/ ~r.processed,
              despawn |-> ~r.panic /\ r.processed,
              written |-> r.written]

\* ProcessingMesh::system.  The loop panics at the first entity whose
\* iteration panics, after handling the entities of `done`.
ProcessingMesh_system ==
    /\ ~crashed
    /\ ~returned
    /\ "mesh" \notin ran
    /\ \E outcome \in [Query(FileMesh) -> Outcomes] :
        LET res == [e \in Query(FileMesh) |-> mesh_entry(e, outcome[e])]
            panics == {e \in Query(FileMesh) : res[e].panic}
            untransformed == {e \in Query(FileMesh) :
                                outcome[e] \in {"import_err", "export_err"}}
        IN  /\ \A e \in Query(FileMesh) : ~Writable(e.dest) => outcome[e] # "ok"
            /\ IF panics = {}
               THEN /\ destTime' = Written({e \in Query(FileMesh) : res[e].written})
                    /\ despawnCmds' = despawnCmds
                            (+) BagOf({e \in Query(FileMesh) : res[e].despawn})
                    /\ failed' = failed \cup {e.source : e \in untransformed}
                    /\ crashed' = FALSE
               ELSE \E done \in SUBSET (Query(FileMesh) \ panics) :
                    /\ destTime' = Written({e \in done : res[e].written})
                    /\ despawnCmds' = despawnCmds
                            (+) BagOf({e \in done : res[e].despawn})
                    /\ failed' = failed
                            \cup {e.source : e \in panics \cup (done \cap untransformed)}
                    /\ crashed' = TRUE
    /\ ran' = ran \cup {"mesh"}
    /\ UNCHANGED << config, now, srcTime, destDirs, timer, entities,
                    spawnCmds, unprocessed, touches, started, fired, everFired, quiet,
                    unhandled >>
    /\ UNCHANGED << time_delta, erred >>
    /\ UNCHANGED driverVars
    /\ UNCHANGED oracleVars

\* the test of the run-once loop after app.update()
oneshot_break ==
    oneshot /\ unprocessed <= 0

\* the end of the Update schedule: the deferred commands are applied and
\* the frame is over; app.update() returns to the driver
apply_deferred ==
    /\ ~crashed
    /\ ~returned
    /\ returned' = oneshot_break
    /\ UNCHANGED oneshot
    /\ ran = {"scan", "raw", "mesh"}
    /\ entities' = (entities (-) despawnCmds) (+) spawnCmds
    /\ spawnCmds' = EmptyBag
    /\ despawnCmds' = EmptyBag
    /\ ran' = {}
    /\ fired' = FALSE
    /\ started' = TRUE
    /\ UNCHANGED << config, now, srcTime, destTime, destDirs, timer,
                    unprocessed, touches, everFired, quiet, unhandled, failed,
                    crashed >>
    /\ time_delta' = 0
    /\ UNCHANGED erred
    /\ UNCHANGED oracleVars

(***************************************************************************)
(* The environment, for as long as the process runs: time passes, source   *)
(* files are modified and the files of the destination tree are deleted.   *)
(***************************************************************************)
ClockTick ==
    /\ ~crashed
    /\ ~returned
    /\ now < MaxClock
    /\ now' = now + 1
    /\ UNCHANGED << config, srcTime, destTime, destDirs, timer, entities,
                    spawnCmds, despawnCmds, unprocessed, touches, started, ran, fired,
                    everFired, quiet, unhandled, failed, crashed >>
    /\ UNCHANGED << time_delta, erred >>
    /\ UNCHANGED driverVars
    /\ UNCHANGED oracleVars

ModifySource ==
    /\ ~crashed
    /\ ~returned
    /\ touches < MaxTouches
    /\ \E f \in SourceFiles :
        /\ srcTime[f] # now
        /\ srcTime' = [srcTime EXCEPT ![f] = now]
    /\ touches' = touches + 1
    /\ quiet' = FALSE
    /\ UNCHANGED << config, now, destTime, destDirs, timer, entities,
                    spawnCmds, despawnCmds, unprocessed, started, ran, fired,
                    everFired, unhandled, failed, crashed >>
    /\ UNCHANGED << time_delta, erred >>
    /\ UNCHANGED driverVars
    /\ UNCHANGED oracleVars

\* every file of the destination tree is deleted; the directories stay
DeleteDest ==
    /\ ~crashed
    /\ ~returned
    /\ touches < MaxTouches
    /\ \E d \in DestFiles : destTime[d] # NoTime
    /\ destTime' = [d \in DestFiles |-> NoTime]
    /\ touches' = touches + 1
    /\ quiet' = FALSE
    /\ UNCHANGED << config, now, srcTime, destDirs, timer, entities,
                    spawnCmds, despawnCmds, unprocessed, started, ran, fired,
                    everFired, unhandled, failed, crashed >>
    /\ UNCHANGED << time_delta, erred >>
    /\ UNCHANGED driverVars
    /\ UNCHANGED oracleVars

(***************************************************************************)
(* The pipeline.                                                           *)
(***************************************************************************)
Init ==
    /\ config \in Configs
    /\ now = 0
    /\ srcTime = [f \in SourceFiles |-> 0]
    /\ \E tree \in DestTrees :
        /\ destTime = tree.files
        /\ destDirs = tree.dirs
    /\ timer = 0
    /\ time_delta = 0
    /\ entities = EmptyBag
    /\ spawnCmds = EmptyBag
    /\ despawnCmds = EmptyBag
    /\ unprocessed = 1
    /\ touches = 0
    /\ erred = {}
    /\ started = FALSE
    /\ ran = {}
    /\ fired = FALSE
    /\ everFired = FALSE
    /\ quiet = FALSE
    /\ unhandled = << >>
    /\ failed = {}
    /\ crashed = FALSE
    /\ oneshot = FALSE
    /\ returned = FALSE
    /\ smeta = NoMeta
    /\ dmeta = NoMeta
    /\ stale = "none"
    /\ rfile = None
    /\ routed = << >>

Next ==
    \/ check_for_stale_files
    \/ ProcessingRaw_system
    \/ ProcessingMesh_system
    \/ apply_deferred
    \/ ClockTick
    \/ ModifySource
    \/ DeleteDest

Spec ==
    Init /\ [][Next]_vars

\* one step of a frame of app.update()
Update ==
    \/ apply_deferred
    \/ ProcessingRaw_system
    \/ ProcessingMesh_system
    \/ check_for_stale_files

\* the driver keeps calling app.update(), and every frame runs every system
\* once before its commands are applied
FairSpec ==
    Spec /\ WF_vars(Update)

(***************************************************************************)
(* The pipeline under the run-once driver.                                 *)
(***************************************************************************)
OneShotInit ==
    /\ config \in Configs
    /\ now = 0
    /\ srcTime = [f \in SourceFiles |-> 0]
    /\ \E tree \in DestTrees :
        /\ destTime = tree.files
        /\ destDirs = tree.dirs
    /\ timer = 0
    /\ time_delta = 0
    /\ entities = EmptyBag
    /\ spawnCmds = EmptyBag
    /\ despawnCmds = EmptyBag
    /\ unprocessed = 1
    /\ touches = 0
    /\ erred = {}
    /\ started = FALSE
    /\ ran = {}
    /\ fired = FALSE
    /\ everFired = FALSE
    /\ quiet = FALSE
    /\ unhandled = << >>
    /\ failed = {}
    /\ crashed = FALSE
    /\ oneshot = TRUE
    /\ returned = FALSE
    /\ smeta = NoMeta
    /\ dmeta = NoMeta
    /\ stale = "none"
    /\ rfile = None
    /\ routed = << >>

OneShotSpec ==
    OneShotInit /\ [][Next]_vars

\* the loop keeps calling app.update() until it breaks
FairOneShotSpec ==
    OneShotSpec /\ WF_vars(Update)

(***************************************************************************)
(* The staleness oracle on its own: is_stale applied to every pair of      *)
(* metadata results.                                                       *)
(***************************************************************************)
Stamps == {NoTime} \cup (0..MaxStamp)

MetaInputs ==
    {NoMeta} \cup {Meta(m, a) : m \in Stamps, a \in Stamps}

OracleInit ==
    /\ config \in Configs
    /\ now = 0
    /\ srcTime = [f \in SourceFiles |-> 0]
    /\ destTime = [d \in DestFiles |-> NoTime]
    /\ destDirs = {}
    /\ timer = 0
    /\ time_delta = 0
    /\ entities = EmptyBag
    /\ spawnCmds = EmptyBag
    /\ despawnCmds = EmptyBag
    /\ unprocessed = 1
    /\ touches = 0
    /\ erred = {}
    /\ started = FALSE
    /\ ran = {}
    /\ fired = FALSE
    /\ everFired = FALSE
    /\ quiet = FALSE
    /\ unhandled = << >>
    /\ failed = {}
    /\ crashed = FALSE
    /\ oneshot = FALSE
    /\ returned = FALSE
    /\ smeta \in MetaInputs
    /\ dmeta \in MetaInputs
    /\ stale = "none"
    /\ rfile = None
    /\ routed = << >>

CallIsStale ==
    /\ stale = "none"
    /\ stale' = IF is_stale(smeta, dmeta) THEN "true" ELSE "false"
    /\ UNCHANGED << smeta, dmeta, rfile, routed >>
    /\ UNCHANGED pipelineVars

OracleNext ==
    CallIsStale

OracleSpec ==
    OracleInit /\ [][OracleNext]_vars

(***************************************************************************)
(* The pipeline on a source tree in which the stat of some entries fails   *)
(* (permission denied, broken symbolic link), with sources and             *)
(* destinations otherwise left alone.                                      *)
(***************************************************************************)
ErrSets ==
    {errs \in SUBSET (1..Len(WalkDir)) :
        Cardinality(errs) \in 1..MaxWalkErrors}

WalkInit ==
    /\ config \in Configs
    /\ now = 0
    /\ srcTime = [f \in SourceFiles |-> 0]
    /\ \E tree \in DestTrees :
        /\ destTime = tree.files
        /\ destDirs = tree.dirs
    /\ timer = 0
    /\ time_delta = 0
    /\ entities = EmptyBag
    /\ spawnCmds = EmptyBag
    /\ despawnCmds = EmptyBag
    /\ unprocessed = 1
    /\ touches = 0
    /\ erred \in ErrSets
    /\ started = FALSE
    /\ ran = {}
    /\ fired = FALSE
    /\ everFired = FALSE
    /\ quiet = FALSE
    /\ unhandled = << >>
    /\ failed = {}
    /\ crashed = FALSE
    /\ oneshot = FALSE
    /\ returned = FALSE
    /\ smeta = NoMeta
    /\ dmeta = NoMeta
    /\ stale = "none"
    /\ rfile = None
    /\ routed = << >>

WalkNext ==
    \/ check_for_stale_files
    \/ ProcessingRaw_system
    \/ ProcessingMesh_system
    \/ apply_deferred
    \/ DeleteDest

WalkSpec ==
    WalkInit /\ [][WalkNext]_vars

(***************************************************************************)
(* Routing on its own: queue_file applied to source files of every         *)
(* spelling of an extension, under extension lists of every spelling.      *)
(***************************************************************************)
ExtPnG == << "P", "n", "G" >>

ExtGLB == << "G", "L", "B" >>

RouteExts ==
    {NoExt, ExtPng, ExtPNG, ExtPnG, ExtGlb, ExtGLB, ExtFbx}

RouteFiles ==
    {Src(<< Comp("a", ext) >>) : ext \in RouteExts}

RouteLists ==
    {<< >>, << ExtPng >>, << ExtPNG >>, << ExtGlb >>, << ExtGLB, ExtPnG >>}

RouteConfigs ==
    {[file_watching_rate_seconds |-> 1, raw |-> r, mesh |-> m] :
        r \in RouteLists, m \in RouteLists}

RouteInit ==
    /\ config \in RouteConfigs
    /\ now = 0
    /\ srcTime = [f \in SourceFiles |-> 0]
    /\ destTime = [d \in DestFiles |-> NoTime]
    /\ destDirs = {}
    /\ timer = 0
    /\ time_delta = 0
    /\ entities = EmptyBag
    /\ spawnCmds = EmptyBag
    /\ despawnCmds = EmptyBag
    /\ unprocessed = 1
    /\ touches = 0
    /\ erred = {}
    /\ started = FALSE
    /\ ran = {}
    /\ fired = FALSE
    /\ everFired = FALSE
    /\ quiet = FALSE
    /\ unhandled = << >>
    /\ failed = {}
    /\ crashed = FALSE
    /\ oneshot = FALSE
    /\ returned = FALSE
    /\ smeta = NoMeta
    /\ dmeta = NoMeta
    /\ stale = "none"
    /\ rfile \in RouteFiles
    /\ routed = << >>

\* the destination is computed and queue_file is called, as the scan does
\* for a stale file
CallQueueFile ==
    /\ routed = << >>
    /\ LET dest_path == AssetProcessing_get_destination(rfile)
       IN  /\ dest_path # None
           /\ routed' = << queue_file(rfile, dest_path, config) >>
    /\ UNCHANGED << smeta, dmeta, stale, rfile >>
    /\ UNCHANGED pipelineVars

RouteNext ==
    CallQueueFile

RouteSpec ==
    RouteInit /\ [][RouteNext]_vars

(***************************************************************************)
(* Properties.                                                             *)
(***************************************************************************)
\* the Work Items that are created and not yet retired
UnRetired ==
    entities (+) spawnCmds

\* the number of un-retired Work Items of a source
InFlightCount(s) ==
    BagCardinality([e \in {x \in BagToSet(UnRetired) : x.source = s}
                        |-> CopiesIn(e, UnRetired)])

\* a kind claims the file's extension
Claimed(f) ==
    /\ extension(f) # NoExt
    /\ \/ Contains(config.raw, to_ascii_lowercase(extension(f)))
       \/ Contains(config.mesh, to_ascii_lowercase(extension(f)))

\* the mirror of a source path in the destination tree
Mirror(p) ==
    Assets \o SubSeq(p, 2, Len(p))

\* the destination of a source file is missing or older than the source
StaleFile(f) ==
    \/ destTime[Mirror(f)] = NoTime
    \/ srcTime[f] > destTime[Mirror(f)]

\* C1: at-most-one-in-flight.  In every reachable state every source path
\* has at most one un-retired Work Item, whatever the interleaving of scans
\* and processor passes.
C1_AtMostOneInFlight ==
    \A s \in SourceFiles \cup SourceDirs : InFlightCount(s) <= 1

\* C1 witness: the scan has fired in a frame in which a Work Item of a
\* still stale source is un-retired, and it has run before the processors.
C1_Witness ==
    /\ fired
    /\ ran = {"scan"}
    /\ \E e \in BagToSet(entities) : StaleFile(e.source)

\* C2: idempotence.  A scan that fires after a scan and the processing of
\* everything it queued, with no source change in between, queues nothing.
C2_Idempotence ==
    [][(fired' /\ ~fired /\ quiet /\ entities = EmptyBag) => unprocessed' = 0]_vars

\* the comparison time of a metadata result
StampOf(meta) ==
    IF meta.modified # NoTime THEN meta.modified ELSE meta.accessed

\* C3: staleness correctness.  For a source that can be stat'd, is_stale is
\* true exactly when the destination is missing or the source time is
\* strictly greater than the destination time.
C3_StalenessCorrect ==
    (/\ stale # "none"
     /\ smeta.exists
     /\ StampOf(smeta) # NoTime
     /\ dmeta.exists => StampOf(dmeta) # NoTime)
    => (stale = "true" <=> (~dmeta.exists \/ StampOf(smeta) > StampOf(dmeta)))

\* C3 witness: is_stale has answered false for equal time stamps.
C3_Witness ==
    /\ stale = "false"
    /\ smeta.exists
    /\ dmeta.exists
    /\ StampOf(smeta) # NoTime
    /\ StampOf(smeta) = StampOf(dmeta)

\* C4: extension routing.  Every Work Item carries the first kind, in the
\* order raw then mesh, whose list holds the lowercase extension of its
\* source; a source in neither list has no Work Item.
C4_ExtensionRouting ==
    \A e \in BagToSet(UnRetired) :
        LET ext == to_ascii_lowercase(extension(e.source))
        IN  IF Contains(config.raw, ext)
            THEN e.kind = FileRaw
            ELSE Contains(config.mesh, ext) /\ e.kind = FileMesh

\* C4 witness: a Work Item whose extension is in both lists is tagged raw.
C4_Witness ==
    \E e \in BagToSet(entities) :
        /\ Contains(config.raw, to_ascii_lowercase(extension(e.source)))
        /\ Contains(config.mesh, to_ascii_lowercase(extension(e.source)))
        /\ e.kind = FileRaw

\* C5: mesh destination rule.  Every Work Item of the mesh kind has the
\* destination its source maps to under the mesh rule: root replaced,
\* extension forced to glb.
C5_MeshDestination ==
    \A e \in BagToSet(UnRetired) :
        e.kind = FileMesh => e.dest = ProcessingMesh_get_destination(e.source)

\* C6: retire only after a successful write.  Whenever a pass retires a
\* Work Item, its destination exists and is not stale.
C6_RetireAfterWrite ==
    [][\A e \in BagToSet(despawnCmds') :
          CopiesIn(e, despawnCmds') > CopiesIn(e, despawnCmds)
          => /\ destTime'[e.dest] # NoTime
             /\ ~(srcTime'[e.source] > destTime'[e.dest])]_vars

\* C7: eventual processing.  Under fair scheduling every claimed source
\* file that is stale is eventually processed: its destination exists, is
\* not stale, and no Work Item of it is left.
C7_EventualProcessing ==
    \A f \in SourceFiles :
        (Claimed(f) /\ StaleFile(f))
        ~> (~StaleFile(f) /\ f \notin Sources(UnRetired))

\* C8: failure isolation.  A failed execution of a Work Item never stops
\* the system.
C8_FailureIsolation ==
    ~crashed

\* C9: retry after a failed transform.  A source whose mesh transform
\* failed has no destination written by it and is queued again by a later
\* scan.
C9_RetryAfterFailure ==
    \A f \in SourceFiles :
        (f \in failed) ~> (f \in Sources(spawnCmds))

\* C10: directory mirroring.  Once a scan has fired, every directory of the
\* source tree has its mirror in the destination tree, and no step removes
\* a directory.
C10_DirectoryMirroring ==
    /\ [](everFired => \A d \in SourceDirs : Mirror(d) \in destDirs)
    /\ [][destDirs \subseteq destDirs']_vars

\* C10 witness: a scan has fired in an earlier frame and the empty source
\* directory has its mirror.
C10_Witness ==
    /\ everFired
    /\ ~fired
    /\ Join(Assets, << Comp("empty", NoExt) >>) \in destDirs
    /\ entities # EmptyBag

\* the source files with an extension that no configured list holds, the
\* configuration file aside
Unrecognized ==
    {f \in SourceFiles :
        /\ extension(f) # NoExt
        /\ f # Join(AssetsDev, << Comp("config", ExtToml) >>)
        /\ ~Claimed(f)}

\* C11: unrecognized extension.  A source file whose extension is in no
\* configured list never has a Work Item, and the unhandled-file list of
\* every fired scan holds it, whatever the destination tree holds.
C11_UnrecognizedReported ==
    /\ \A f \in Unrecognized : f \notin Sources(UnRetired)
    /\ fired => \A f \in Unrecognized : Contains(unhandled, f)

\* no file of the destination tree exists
AllMissing ==
    \A d \in DestFiles : destTime[d] = NoTime

\* the claimed source files the scan does not exclude by name
ClaimedFiles ==
    {f \in SourceFiles :
        Claimed(f) /\ f # Join(AssetsDev, << Comp("config", ExtToml) >>)}

\* C12: regeneration after destination loss.  A scan that fires while no
\* destination file exists creates a Work Item for every claimed source
\* file that has no un-retired Work Item, and the processor passes that
\* follow recreate the destination of every claimed source file.
C12_Regeneration ==
    /\ [][(fired' /\ ~fired /\ AllMissing)
            => \A f \in ClaimedFiles :
                  f \notin Sources(UnRetired) => f \in Sources(spawnCmds')]_vars
    /\ \A f \in SourceFiles :
          (AllMissing /\ f \in ClaimedFiles) ~> (destTime[Mirror(f)] # NoTime)

\* two extension strings are equal ignoring ASCII case
EqIgnoreCase(a, b) ==
    to_ascii_lowercase(a) = to_ascii_lowercase(b)

\* a list holds a string equal to the extension ignoring ASCII case
HoldsIgnoreCase(list, ext) ==
    \E i \in 1..Len(list) : EqIgnoreCase(list[i], ext)

\* C13: case-insensitive extension matching.  queue_file hands a file to
\* the raw kind exactly when the raw list holds its extension ignoring
\* ASCII case, to the mesh kind exactly when the raw list does not and the
\* mesh list does, and to no kind otherwise, whatever the case of the
\* file's extension and of the configured strings.
C13_CaseInsensitive ==
    routed # << >> =>
        LET ext == extension(rfile)
            raw == ext # NoExt /\ HoldsIgnoreCase(config.raw, ext)
            mesh == ext # NoExt /\ HoldsIgnoreCase(config.mesh, ext)
        IN  /\ routed[1].ok <=> (raw \/ mesh)
            /\ raw => \A e \in BagToSet(routed[1].spawn) : e.kind = FileRaw
            /\ (mesh /\ ~raw) => \A e \in BagToSet(routed[1].spawn) : e.kind = FileMesh

\* paths that are not under the source root
OutsidePaths ==
    { << >>,
      << Comp("a", ExtPng) >>,
      Assets,
      Join(Assets, << Comp("a", ExtPng) >>),
      << Comp("assets-dev-old", NoExt), Comp("a", ExtPng) >>,
      << Comp("sub", NoExt), Comp("assets-dev", NoExt), Comp("b", ExtPNG) >> }

\* C14: raw destination rule.  In every state every Work Item of the raw
\* kind has a source under assets-dev and the destination that is its
\* source with the root replaced by assets, same relative path and same
\* extension, so a source has one destination on every tick; the mapping
\* gives none for a path that is not under the source root.
C14_RawDestination ==
    /\ \A e \in BagToSet(UnRetired) :
          e.kind = FileRaw =>
            /\ SubSeq(e.source, 1, 1) = AssetsDev
            /\ SubSeq(e.dest, 1, 1) = Assets
            /\ SubSeq(e.dest, 2, Len(e.dest)) = SubSeq(e.source, 2, Len(e.source))
            /\ extension(e.dest) = extension(e.source)
    /\ \A p \in OutsidePaths : ProcessingRaw_get_destination(p) = None
    /\ \A f \in SourceFiles \cup SourceDirs :
          ProcessingRaw_get_destination(f) = Mirror(f)

\* C14 witness: a raw Work Item of a file in a sub-directory, with an
\* upper-case extension, is in the world with its mirrored destination.
C14_Witness ==
    \E e \in BagToSet(entities) :
        /\ e.kind = FileRaw
        /\ e.source = Src(<< Comp("sub", NoExt), Comp("b", ExtPNG) >>)
        /\ e.dest = Join(Assets, << Comp("sub", NoExt), Comp("b", ExtPNG) >>)

\* the configuration file
ConfigFile ==
    Src(<< Comp("config", ExtToml) >>)

\* C15: configuration file excluded.  In every state assets-dev/config.toml
\* has no Work Item and is not in the unhandled-file list, also when toml
\* is a configured extension.
C15_ConfigExcluded ==
    /\ ConfigFile \notin Sources(UnRetired)
    /\ ~Contains(unhandled, ConfigFile)

\* C15 witness: a scan has fired under a configuration that lists toml,
\* with the mirror of config.toml missing, and has queued other files.
C15_Witness ==
    /\ fired
    /\ Contains(config.raw, ExtToml)
    /\ destTime[Mirror(ConfigFile)] = NoTime
    /\ spawnCmds # EmptyBag

\* the entry at position i of the walk is yielded as Ok
YieldedOk(i) ==
    entry_result(i, erred) = "ok"

\* C16: walk errors skip one entry only.  In a scan that fires while the
\* stat of some entries fails, every entry the walk yields as Ok is
\* evaluated: the mirror of every such directory exists afterwards, and
\* every such file that is claimed, stale and has no Work Item in the world
\* is queued; the failing entries get nothing.
C16_WalkErrorsSkipOne ==
    [][(fired' /\ ~fired /\ erred # {})
        => \A i \in 1..Len(WalkDir) :
            LET p == WalkDir[i].path
            IN  /\ (YieldedOk(i) /\ WalkDir[i].is_dir) => Mirror(p) \in destDirs'
                /\ (/\ YieldedOk(i)
                    /\ p \in ClaimedFiles
                    /\ StaleFile(p)
                    /\ p \notin Sources(entities))
                   => p \in Sources(spawnCmds')
                /\ (~YieldedOk(i) /\ ~WalkDir[i].is_dir)
                   => p \notin Sources(spawnCmds')]_vars

\* C16 witness: a scan has fired while the stat of a.png, an early entry
\* of the walk, fails; the file in the sub-directory, a later entry, is
\* queued and the last directory is mirrored.
C16_Witness ==
    /\ fired
    /\ erred = {3}
    /\ Src(<< Comp("sub", NoExt), Comp("b", ExtPNG) >>) \in Sources(spawnCmds)
    /\ Src(<< Comp("a", ExtPng) >>) \notin Sources(spawnCmds)
    /\ Join(Assets, << Comp("sub", NoExt) >>) \in destDirs

\* C17: no extension, no kind.  In every state a source file without an
\* extension has no Work Item, whatever the extension lists hold.
C17_NoExtensionNeverClaimed ==
    \A f \in SourceFiles :
        extension(f) = NoExt => f \notin Sources(UnRetired)

\* C17 witness: a scan has fired under a configuration whose raw list holds
\* the empty string, found README stale, and left it unhandled.
C17_Witness ==
    /\ fired
    /\ Contains(config.raw, ExtEmpty)
    /\ StaleFile(Src(<< Comp("README", NoExt) >>))
    /\ Contains(unhandled, Src(<< Comp("README", NoExt) >>))
    /\ spawnCmds # EmptyBag

\* the step is a call of check_for_stale_files
ScanStep ==
    "scan" \notin ran /\ "scan" \in ran'

\* C18: timer gating.  A call of check_for_stale_files whose tick leaves
\* the timer short of the poll interval only advances the timer: it spawns
\* nothing, creates no directory, and leaves UnprocessedFiles, the Work
\* Items and the file system as they are.
C18_TimerGating ==
    [][(ScanStep /\ timer + time_delta' < config.file_watching_rate_seconds)
        => /\ timer' = timer + time_delta'
           /\ UNCHANGED << spawnCmds, despawnCmds, entities, destDirs,
                           destTime, unprocessed, unhandled >>]_vars

\* C18 witness: in a frame after the first, with Work Items in the world,
\* the scan has been called with a positive delta and the timer is still
\* short of the interval.
C18_Witness ==
    /\ "scan" \in ran
    /\ started
    /\ ~fired
    /\ time_delta > 0
    /\ timer = time_delta
    /\ timer < config.file_watching_rate_seconds
    /\ entities # EmptyBag

\* an execution has not succeeded: a system panicked, a transform failed,
\* or an item is being retired with its destination missing or stale
SomeExecutionFailed ==
    \/ crashed
    \/ failed # {}
    \/ \E e \in BagToSet(despawnCmds) : StaleFile(e.source)

\* C19: one-shot completion.  The run-once loop ends only after an update
\* in which a scan fired and queued nothing; when it ends no Work Item is
\* un-retired and, the environment having left both trees alone, no
\* claimed source file is stale; and when every execution succeeds the
\* loop does end.
C19_OneShotCompletion ==
    /\ [][(returned' /\ ~returned)
            => /\ fired
               /\ unprocessed = 0
               /\ entities' (+) spawnCmds' = EmptyBag
               /\ touches = 0 => \A f \in ClaimedFiles : ~StaleFile(f)]_vars
    /\ <>(returned \/ SomeExecutionFailed)

====
